---- MODULE Spec2Model ----
(***************************************************************************)
(* Model of deploy.py: the deployment and process lifecycle manager of     *)
(* remote_control.  One invocation of the script is a short sequential     *)
(* process (module load, configuration check, then one of Deploy, Kill,    *)
(* Uninstall, --location) acting on the file system, on the set of running *)
(* instances of the managed executable and on the startup schedule.        *)
(***************************************************************************)
EXTENDS Integers, Sequences, FiniteSets, TLC

\* Largest number of instances of the managed executable that may run at once.
MaxRunning == 2

\* Invocations of the script (operating-system processes running deploy.py).
Procs == {1, 2}

\* The sequential specification runs its invocations one after the other.
SeqProcs == {1}

VARIABLES
    platform,      \* sys.platform: "win32" or "darwin"
    envKey,        \* os.getenv('KEY') is not None
    dotEnvHasKey,  \* 'KEY' in the text of the source .env file
    cron,          \* entries of the user's crontab that run start_script.dst
    srcFiles,      \* DeployFiles whose source (under src_base) exists
    rootExists,    \* DeployFile.dst_base (the install root) exists
    dstFiles,      \* DeployFiles whose destination exists
    stray,         \* the install root holds a file that is no DeployFile
    startFresh,    \* start_script.dst is a copy of the current source script
    running,       \* number of running processes named exe_name
    pc,            \* per invocation: position in the script
    op,            \* per invocation: the operation the arguments select
    idx,           \* per invocation: index of the for loop over files_to_deploy
    out,           \* per invocation: lines printed to the console
    exc,           \* per invocation: exception that ended it ("none" if none)
    exitCode,      \* per invocation: exit status (-1 while running)
    steps,         \* per invocation: the calls made so far, in order
    ext,           \* per invocation: what the external commands answered
    pre,           \* per invocation: the machine's state when it started
    prev,          \* per invocation: operation and outcome of the one before
    call           \* last direct call of a DeployFile method (SpecFile)

envVars  == <<platform, envKey, dotEnvHasKey, cron>>
fsVars   == <<srcFiles, rootExists, dstFiles, stray, startFresh>>
procVars == <<pc, op, idx, out, exc, exitCode, steps, ext, pre, prev>>
vars     == <<envVars, fsVars, running, procVars, call>>

----------------------------------------------------------------------------
\* Module-level data (deploy.py lines 15-76)

exe_file           == "exe"
dot_env_file       == ".env"
rocket_config_file == "Rocket.toml"
start_script       == "start"
applescript_file   == "macos_minimize_windows.applescript"

Platforms == {"win32", "darwin"}

\* The InstallSet: the ordered list files_to_deploy of the running platform.
files_to_deploy(plat) ==
    IF plat = "win32"
    THEN <<exe_file, rocket_config_file, dot_env_file>>
    ELSE <<exe_file, rocket_config_file, dot_env_file, applescript_file, start_script>>

InstallSet(plat) == {files_to_deploy(plat)[i] : i \in 1..Len(files_to_deploy(plat))}

\* Every DeployFile the script constructs on a platform.
AllFiles(plat) == InstallSet(plat) \cup {start_script}

\* Whether a DeployFile's destination lies under dst_base.  On win32 the start
\* script's destination is an absolute path in the startup folder.
InRoot(f, plat) == ~(plat = "win32" /\ f = start_script)

\* The destinations under the install root that exist.
RootFiles(dst, plat) == {f \in dst : InRoot(f, plat)}

----------------------------------------------------------------------------
\* File-system primitives and DeployFile (lines 18-57).  Each returns the new
\* set of existing destinations and the exception raised ("none" if none).

Result(dst, raised) == [dst |-> dst, raised |-> raised]

\* contextlib.suppress(E) around a call with result r
suppress(E, r) == IF r.raised \in E THEN Result(r.dst, "none") ELSE r

\* Path.unlink() of the destination of f
unlink(f, dst) ==
    IF f \in dst THEN Result(dst \ {f}, "none")
                 ELSE Result(dst, "FileNotFoundError")

\* shutil.copy(src, dst): needs the source and the destination's directory
copy(f, src, dst, root, plat) ==
    IF f \in src /\ (InRoot(f, plat) => root)
    THEN Result(dst \cup {f}, "none")
    ELSE Result(dst, "FileNotFoundError")

\* remove() without the suppression of FileNotFoundError
remove_unsuppressed(f, dst) == unlink(f, dst)

\* DeployFile.remove
remove(f, dst) == suppress({"FileNotFoundError"}, unlink(f, dst))

\* Whether start_script.dst holds the current source script after deploy() of f
\* gave result r: deploy() leaves at the destination nothing but a new copy.
FreshAfterDeploy(f, r, fresh) == IF f = start_script THEN start_script \in r.dst ELSE fresh

\* The same after an unlink with result r.
FreshAfterUnlink(r, fresh) == fresh /\ start_script \in r.dst

\* deploy() that lets the FileNotFoundError of copy() through
deploy_propagating(f, src, dst, root, plat) ==
    LET r == remove(f, dst)
    IN  IF r.raised # "none" THEN r ELSE copy(f, src, r.dst, root, plat)

\* deploy() that copies without removing the old destination first and
\* leaves it in place when there is nothing to copy
deploy_keeping_old(f, src, dst, root, plat) ==
    suppress({"FileNotFoundError"}, copy(f, src, dst, root, plat))

\* DeployFile.deploy
deploy(f, src, dst, root, plat) ==
    LET r == remove(f, dst)
    IN  IF r.raised # "none" THEN r
        ELSE suppress({"FileNotFoundError"}, copy(f, src, r.dst, root, plat))

----------------------------------------------------------------------------
\* _WindowsScheduler (lines 91-105).  The class _MacOSScheduler cannot be
\* created: its body (line 111) assigns to self._cron, and the name self is
\* not defined in a class body, so loading the module on any platform other
\* than win32 raises NameError (see LoadModule).

\* _WindowsScheduler.is_scheduled
is_scheduled(dst) == start_script \in dst

\* schedule() that does not put the start script into the startup folder
schedule_nothing(src, dst, root, plat) == Result(dst, "none")

\* _WindowsScheduler.schedule
schedule(src, dst, root, plat) == deploy(start_script, src, dst, root, plat)

\* unschedule() that lets the FileNotFoundError of unlink through
unschedule_raw(dst) == unlink(start_script, dst)

\* _WindowsScheduler.unschedule
unschedule(dst) ==
    LET r == unlink(start_script, dst)
    IN  IF r.raised = "FileNotFoundError" THEN Result(r.dst, "NotScheduledError") ELSE r

\* Number of startup files / scheduled entries.
ScheduledEntries == IF is_scheduled(dstFiles) THEN 1 ELSE 0

----------------------------------------------------------------------------
\* External commands

\* What the kill command can answer when n instances run: with none running it
\* reports an error; otherwise it kills them all or fails for another reason.
KillAnswers(n) == IF n = 0 THEN {"notrunning"} ELSE {"killed", "failed"}

\* kill_process that treats an error of the kill command as success
kill_process_ignoring(answer) == "none"

\* kill_process (lines 155-175): the exception raised for an answer.  Any
\* error output, whatever its cause, raises the same ProcessKillError.
kill_process(answer) == IF answer = "killed" THEN "none" ELSE "ProcessKillError"

\* build() through a call that does not check the exit status
build_unchecked(ok) == "none"

\* build (lines 178-180): check_call raises on a non-zero exit status
build(ok) == IF ok THEN "none" ELSE "CalledProcessError"

\* handle_invalid_config that accepts a missing key
handle_invalid_config_lax(src, key, hasKey) ==
    IF rocket_config_file \notin src THEN "[error] No Rocket.toml present."
    ELSE "ok"

\* handle_invalid_config (lines 195-208): "ok", or the error line printed
\* (the messages are written here without their backquotes)
handle_invalid_config(src, key, hasKey) ==
    IF rocket_config_file \notin src THEN "[error] No Rocket.toml present."
    ELSE IF key THEN "ok"
    ELSE IF dot_env_file \notin src THEN "[error] Key not in environment or .env file."
    ELSE IF hasKey THEN "ok"
    ELSE "[error] Key not in environment or .env file."

----------------------------------------------------------------------------
\* Bookkeeping of one invocation

NoExt == [build |-> "none", kill |-> "none"]

Snapshot == [rootExists |-> rootExists, dstFiles |-> dstFiles,
             stray |-> stray, running |-> running]

Goto(p, label) == /\ pc' = [pc EXCEPT ![p] = label]
                  /\ UNCHANGED <<exc, exitCode>>

\* The invocation ends: exception e ("none": main returned) and exit status
Finish(p, e, code) == /\ pc' = [pc EXCEPT ![p] = "done"]
                      /\ exc' = [exc EXCEPT ![p] = e]
                      /\ exitCode' = [exitCode EXCEPT ![p] = code]

\* An exception nobody catches: traceback, exit status 1
Raise(p, e) == Finish(p, e, 1)

Did(p, name) == steps' = [steps EXCEPT ![p] = Append(@, name)]

\* print / print_info (lines 150-152)
Say(p, lines) == out' = [out EXCEPT ![p] = @ \o lines]

----------------------------------------------------------------------------
\* The machine before the first invocation: any state of the sources, of the
\* installation and of the schedule on win32; off win32, where the script
\* stops while loading, nothing installed or everything installed.
Init ==
    /\ platform \in Platforms
    /\ envKey \in BOOLEAN
    /\ srcFiles \in SUBSET AllFiles(platform)
    /\ dotEnvHasKey \in BOOLEAN
    /\ dotEnvHasKey => dot_env_file \in srcFiles
    /\ rootExists \in BOOLEAN
    /\ dstFiles \in SUBSET AllFiles(platform)
    /\ platform # "win32" => dstFiles \in {{}, AllFiles(platform)}
    /\ RootFiles(dstFiles, platform) # {} => rootExists
    /\ stray \in BOOLEAN
    /\ stray => rootExists
    /\ startFresh \in BOOLEAN
    /\ startFresh => (start_script \in dstFiles /\ start_script \in srcFiles)
    /\ cron \in {0, 1}
    /\ platform = "win32" => cron = 0
    /\ running \in {0, 1}
    /\ pc = [p \in Procs |-> "idle"]
    /\ op = [p \in Procs |-> "none"]
    /\ idx = [p \in Procs |-> 1]
    /\ out = [p \in Procs |-> <<>>]
    /\ exc = [p \in Procs |-> "none"]
    /\ exitCode = [p \in Procs |-> -1]
    /\ steps = [p \in Procs |-> <<>>]
    /\ ext = [p \in Procs |-> NoExt]
    /\ pre = [p \in Procs |-> Snapshot]
    /\ prev = [p \in Procs |-> [op |-> "none", ok |-> FALSE]]
    /\ call = [method |-> "none", file |-> "none", before |-> {},
               raised |-> "none", prior |-> "none"]

Ops == {"deploy", "kill", "uninstall", "location"}

\* The user runs the script; get_args (lines 183-192) fixes the operation.
Start(p) ==
    /\ pc[p] \in {"idle", "done"}
    /\ \E o \in Ops : op' = [op EXCEPT ![p] = o]
    /\ pc' = [pc EXCEPT ![p] = "load"]
    /\ idx' = [idx EXCEPT ![p] = 1]
    /\ out' = [out EXCEPT ![p] = <<>>]
    /\ exc' = [exc EXCEPT ![p] = "none"]
    /\ exitCode' = [exitCode EXCEPT ![p] = -1]
    /\ steps' = [steps EXCEPT ![p] = <<>>]
    /\ ext' = [ext EXCEPT ![p] = NoExt]
    /\ pre' = [pre EXCEPT ![p] = Snapshot]
    /\ prev' = [prev EXCEPT ![p] = [op |-> op[p], ok |-> pc[p] = "done" /\ exc[p] = "none"]]
    /\ UNCHANGED <<envVars, fsVars, running, call>>

\* Module load (lines 1-141): off win32 the body of _MacOSScheduler raises.
LoadModule(p) ==
    /\ pc[p] = "load"
    /\ IF platform = "win32"
       THEN Goto(p, "main")
       ELSE Raise(p, "NameError")
    /\ UNCHANGED <<envVars, fsVars, running, op, idx, out, steps, ext, pre, prev, call>>

\* main up to the dispatch (lines 273-289): the configuration check comes
\* first, for every operation; exit_with_err and --location end through
\* exit(), that is with exit status 0.
Main(p) ==
    /\ pc[p] = "main"
    /\ LET c == handle_invalid_config(srcFiles, envKey, dotEnvHasKey)
       IN  IF c # "ok"
           THEN /\ Say(p, <<c>>)
                /\ Finish(p, "SystemExit", 0)
                /\ Did(p, "exit_with_err")
           ELSE IF op[p] = "location"
           THEN /\ Say(p, <<"dst_base">>)
                /\ Finish(p, "SystemExit", 0)
                /\ Did(p, "location")
           ELSE /\ Goto(p, CASE op[p] = "kill" -> "k_kill"
                             [] op[p] = "uninstall" -> "u_kill"
                             [] OTHER -> "d_mkdir")
                /\ Did(p, op[p])
                /\ UNCHANGED out
    /\ UNCHANGED <<envVars, fsVars, running, op, idx, ext, pre, prev, call>>

----------------------------------------------------------------------------
\* Kill (main, lines 280-285)

Kill(p) ==
    /\ pc[p] = "k_kill"
    /\ \E a \in KillAnswers(running) :
         /\ ext' = [ext EXCEPT ![p].kill = a]
         /\ running' = IF a = "killed" THEN 0 ELSE running
         /\ IF kill_process(a) = "none"
            THEN Say(p, <<"[info] process killed">>)
            ELSE Say(p, <<"[info] process not running">>)
    /\ Did(p, "kill_process")
    /\ Finish(p, "none", 0)
    /\ UNCHANGED <<envVars, fsVars, op, idx, pre, prev, call>>

----------------------------------------------------------------------------
\* deploy_all (lines 247-270)

\* deploy_all that goes from mkdir to the kill step, leaving out the build
DeployMkdir_kill_first(p) ==
    /\ pc[p] = "d_mkdir"
    /\ rootExists' = TRUE
    /\ Did(p, "mkdir")
    /\ Goto(p, "d_kill")
    /\ UNCHANGED <<envVars, srcFiles, dstFiles, stray, startFresh, running, op, idx, out, ext, pre, prev, call>>

\* lines 253-254: mkdir, FileExistsError suppressed
DeployMkdir(p) ==
    /\ pc[p] = "d_mkdir"
    /\ rootExists' = TRUE
    /\ Did(p, "mkdir")
    /\ Goto(p, "d_build")
    /\ UNCHANGED <<envVars, srcFiles, dstFiles, stray, startFresh, running, op, idx, out, ext, pre, prev, call>>

\* line 256: a successful build leaves the executable in target/release
DeployBuild(p) ==
    /\ pc[p] = "d_build"
    /\ \E ok \in BOOLEAN :
         /\ ext' = [ext EXCEPT ![p].build = IF ok THEN "ok" ELSE "failed"]
         /\ srcFiles' = IF ok THEN srcFiles \cup {exe_file} ELSE srcFiles
         /\ IF build(ok) = "none" THEN Goto(p, "d_kill") ELSE Raise(p, build(ok))
    /\ Did(p, "build")
    /\ UNCHANGED <<envVars, rootExists, dstFiles, stray, startFresh, running, op, idx, out, pre, prev, call>>

\* A kill step that waits until no other invocation is between its own kill
\* step and its launch, as a lock around them would make it
DeployKill_locked(p) ==
    /\ pc[p] = "d_kill"
    /\ \A q \in Procs \ {p} : pc[q] \notin {"d_files", "d_sched", "d_launch"}
    /\ \E a \in KillAnswers(running) :
         /\ ext' = [ext EXCEPT ![p].kill = a]
         /\ running' = IF a = "killed" THEN 0 ELSE running
         /\ IF kill_process(a) = "none"
            THEN Say(p, <<"[info] old process killed">>)
            ELSE UNCHANGED out
    /\ Did(p, "kill_process")
    /\ Goto(p, "d_files")
    /\ idx' = [idx EXCEPT ![p] = 1]
    /\ UNCHANGED <<envVars, fsVars, op, pre, prev, call>>

\* lines 258-260: ProcessKillError suppressed
DeployKill(p) ==
    /\ pc[p] = "d_kill"
    /\ \E a \in KillAnswers(running) :
         /\ ext' = [ext EXCEPT ![p].kill = a]
         /\ running' = IF a = "killed" THEN 0 ELSE running
         /\ IF kill_process(a) = "none"
            THEN Say(p, <<"[info] old process killed">>)
            ELSE UNCHANGED out
    /\ Did(p, "kill_process")
    /\ Goto(p, "d_files")
    /\ idx' = [idx EXCEPT ![p] = 1]
    /\ UNCHANGED <<envVars, fsVars, op, pre, prev, call>>

\* lines 262-263: one round of the loop
DeployFileStep(p) ==
    /\ pc[p] = "d_files"
    /\ LET files == files_to_deploy(platform)
           f == files[idx[p]]
           r == deploy(f, srcFiles, dstFiles, rootExists, platform)
       IN  /\ dstFiles' = r.dst
           /\ startFresh' = FreshAfterDeploy(f, r, startFresh)
           /\ Did(p, "DeployFile.deploy")
           /\ IF r.raised # "none"
              THEN Raise(p, r.raised) /\ UNCHANGED idx
              ELSE IF idx[p] < Len(files)
              THEN idx' = [idx EXCEPT ![p] = @ + 1] /\ UNCHANGED <<pc, exc, exitCode>>
              ELSE idx' = [idx EXCEPT ![p] = 1] /\ Goto(p, "d_sched")
    /\ UNCHANGED <<envVars, srcFiles, rootExists, stray, running, op, out, ext, pre, prev, call>>

\* lines 265-267
DeploySchedule(p) ==
    /\ pc[p] = "d_sched"
    /\ IF ~is_scheduled(dstFiles)
       THEN LET r == schedule(srcFiles, dstFiles, rootExists, platform)
            IN  /\ dstFiles' = r.dst
                /\ startFresh' = FreshAfterDeploy(start_script, r, startFresh)
                /\ Did(p, "schedule")
                /\ IF r.raised # "none"
                   THEN Raise(p, r.raised) /\ UNCHANGED out
                   ELSE /\ Say(p, <<"[info] scheduled process to run at startup">>)
                        /\ Goto(p, "d_launch")
       ELSE /\ Goto(p, "d_launch")
            /\ Did(p, "is_scheduled")
            /\ UNCHANGED <<dstFiles, startFresh, out>>
    /\ UNCHANGED <<envVars, srcFiles, rootExists, stray, running, op, idx, ext, pre, prev, call>>

\* lines 269-270 and execute_file (lines 211-219): Popen of a missing file
\* raises FileNotFoundError
DeployLaunch(p) ==
    /\ pc[p] = "d_launch"
    /\ Did(p, "execute_file")
    /\ IF exe_file \in dstFiles
       THEN /\ running < MaxRunning
            /\ running' = running + 1
            /\ Say(p, <<"[info] process started">>)
            /\ Finish(p, "none", 0)
       ELSE /\ Raise(p, "FileNotFoundError")
            /\ UNCHANGED <<running, out>>
    /\ UNCHANGED <<envVars, fsVars, op, idx, ext, pre, prev, call>>

----------------------------------------------------------------------------
\* uninstall (lines 222-244)

\* lines 228-230
UninstallKill(p) ==
    /\ pc[p] = "u_kill"
    /\ \E a \in KillAnswers(running) :
         /\ ext' = [ext EXCEPT ![p].kill = a]
         /\ running' = IF a = "killed" THEN 0 ELSE running
         /\ IF kill_process(a) = "none"
            THEN Say(p, <<"[info] process killed">>)
            ELSE UNCHANGED out
    /\ Did(p, "kill_process")
    /\ Goto(p, "u_files")
    /\ idx' = [idx EXCEPT ![p] = 1]
    /\ UNCHANGED <<envVars, fsVars, op, pre, prev, call>>

\* lines 232-234: one round of the loop
UninstallFileStep(p) ==
    /\ pc[p] = "u_files"
    /\ LET files == files_to_deploy(platform)
           r == suppress({"FileNotFoundError"}, unlink(files[idx[p]], dstFiles))
       IN  /\ dstFiles' = r.dst
           /\ startFresh' = FreshAfterUnlink(r, startFresh)
           /\ Did(p, "unlink")
           /\ IF idx[p] < Len(files)
              THEN idx' = [idx EXCEPT ![p] = @ + 1] /\ UNCHANGED <<pc, exc, exitCode>>
              ELSE idx' = [idx EXCEPT ![p] = 1] /\ Goto(p, "u_rmdir")
    /\ UNCHANGED <<envVars, srcFiles, rootExists, stray, running, op, out, ext, pre, prev, call>>

\* Path.rmdir() of the install root
rmdir(root, dst, hasStray, plat) ==
    IF ~root THEN [root |-> root, raised |-> "FileNotFoundError"]
    ELSE IF RootFiles(dst, plat) # {} \/ hasStray THEN [root |-> root, raised |-> "OSError"]
    ELSE [root |-> FALSE, raised |-> "none"]

\* lines 236-238: only FileNotFoundError is suppressed
UninstallRmdir(p) ==
    /\ pc[p] = "u_rmdir"
    /\ LET r == rmdir(rootExists, dstFiles, stray, platform)
       IN  /\ rootExists' = r.root
           /\ Did(p, "rmdir")
           /\ IF r.raised = "none"
              THEN /\ Say(p, <<"[info] removed deployment files and directory">>)
                   /\ Goto(p, "u_unsched")
              ELSE IF r.raised = "FileNotFoundError"
              THEN Goto(p, "u_unsched") /\ UNCHANGED out
              ELSE Raise(p, r.raised) /\ UNCHANGED out
    /\ UNCHANGED <<envVars, srcFiles, dstFiles, stray, startFresh, running, op, idx, ext, pre, prev, call>>

\* lines 240-244
UninstallUnschedule(p) ==
    /\ pc[p] = "u_unsched"
    /\ LET r == unschedule(dstFiles)
       IN  /\ dstFiles' = r.dst
           /\ startFresh' = FreshAfterUnlink(r, startFresh)
           /\ Did(p, "unschedule")
           /\ IF r.raised = "none"
              THEN /\ Say(p, <<"[info] unscheduled run at startup",
                             "[info] remote_control has been uninstalled">>)
                   /\ Finish(p, "none", 0)
              ELSE IF r.raised = "NotScheduledError"
              THEN /\ Say(p, <<"[info] remote_control has been uninstalled">>)
                   /\ Finish(p, "none", 0)
              ELSE Raise(p, r.raised) /\ UNCHANGED out
    /\ UNCHANGED <<envVars, srcFiles, rootExists, stray, running, op, idx, ext, pre, prev, call>>

----------------------------------------------------------------------------
Step(p) ==
    \/ Start(p)
    \/ LoadModule(p)
    \/ Main(p)
    \/ Kill(p)
    \/ DeployMkdir(p)
    \/ DeployBuild(p)
    \/ DeployKill(p)
    \/ DeployFileStep(p)
    \/ DeploySchedule(p)
    \/ DeployLaunch(p)
    \/ UninstallKill(p)
    \/ UninstallFileStep(p)
    \/ UninstallRmdir(p)
    \/ UninstallUnschedule(p)

Next == \E p \in SeqProcs : Step(p)

Spec == Init /\ [][Next]_vars

----------------------------------------------------------------------------
\* Direct calls of the DeployFile methods, on any DeployFile in any state of
\* its source and destination.

CallRemove(f) ==
    /\ LET r == remove(f, dstFiles)
       IN  /\ dstFiles' = r.dst
           /\ startFresh' = FreshAfterUnlink(r, startFresh)
           /\ call' = [method |-> "remove", file |-> f, before |-> dstFiles,
                       raised |-> r.raised,
                       prior |-> IF call.file = f THEN call.method ELSE "none"]
    /\ UNCHANGED <<envVars, srcFiles, rootExists, stray, running, procVars>>

CallDeploy(f) ==
    /\ LET r == deploy(f, srcFiles, dstFiles, rootExists, platform)
       IN  /\ dstFiles' = r.dst
           /\ startFresh' = FreshAfterDeploy(f, r, startFresh)
           /\ call' = [method |-> "deploy", file |-> f, before |-> dstFiles,
                       raised |-> r.raised,
                       prior |-> IF call.file = f THEN call.method ELSE "none"]
    /\ UNCHANGED <<envVars, srcFiles, rootExists, stray, running, procVars>>

NextFile == \E f \in AllFiles(platform) : CallRemove(f) \/ CallDeploy(f)

\* Any state of the sources, the destinations and the install root; what the
\* DeployFile methods do not read is fixed.
InitFile == Init /\ ~envKey /\ ~dotEnvHasKey /\ ~stray /\ running = 0 /\ cron = 0

SpecFile == InitFile /\ [][NextFile]_vars

----------------------------------------------------------------------------
\* Vocabulary of the properties

\* The invocation p made the call `name`.
Called(p, name) == \E i \in 1..Len(steps[p]) : steps[p][i] = name

\* The invocation p has ended.
Ended(p) == pc[p] = "done"

\* The invocation p ran operation o to its end: main returned.
Completed(p, o) == Ended(p) /\ op[p] = o /\ exc[p] = "none" /\ exitCode[p] = 0

\* The sources of the InstallSet and of the start script all exist.
AllSourcesPresent == AllFiles(platform) \subseteq srcFiles

\* Files, install root and stray file are as when invocation p started.
FilesAsBefore(p) ==
    /\ dstFiles = pre[p].dstFiles
    /\ rootExists = pre[p].rootExists
    /\ stray = pre[p].stray

Absent == [rootExists |-> FALSE, dstFiles |-> {}, stray |-> FALSE, running |-> 0]

UninstalledLine == "[info] remote_control has been uninstalled"

\* The configuration precondition fails: the KEY setting is neither in the
\* environment nor in the text of .env, or Rocket.toml is missing.
ConfigPreconditionFails ==
    \/ rocket_config_file \notin srcFiles
    \/ ~envKey /\ ~(dot_env_file \in srcFiles /\ dotEnvHasKey)

ConfigErrorLines == {"[error] No Rocket.toml present.",
                     "[error] Key not in environment or .env file."}

----------------------------------------------------------------------------
\* C1: after a Deploy that runs to completion (build succeeded, all sources
\* present) every destination of the InstallSet exists and is_scheduled() is
\* true, whatever was installed before.
C1_DeployInstalls ==
    \A p \in Procs :
        (Completed(p, "deploy") /\ AllSourcesPresent)
        => /\ InstallSet(platform) \subseteq dstFiles
           /\ is_scheduled(dstFiles)

\* A Deploy that completed on a partial installation: only .env was installed
\* and nothing was scheduled.
C1_Witness ==
    /\ Completed(1, "deploy") /\ AllSourcesPresent
    /\ pre[1].dstFiles = {dot_env_file}
    /\ ext[1].build = "ok"

\* C2: Deploy followed by Uninstall ends Absent: no InstallSet destination
\* exists, the install root is absent or empty, is_scheduled() is false.
C2_RoundTrip ==
    \A p \in Procs :
        (Ended(p) /\ op[p] = "uninstall" /\ prev[p] = [op |-> "deploy", ok |-> TRUE])
        => /\ InstallSet(platform) \cap dstFiles = {}
           /\ ~rootExists \/ (RootFiles(dstFiles, platform) = {} /\ ~stray)
           /\ ~is_scheduled(dstFiles)

\* C3: after any number of successive Deploy runs exactly one scheduled entry
\* (startup file) exists.
C3_ExactlyOneEntry ==
    \A p \in Procs : Completed(p, "deploy") => ScheduledEntries = 1

\* C4: Kill with no process of the managed name running reports "not running",
\* ends normally with exit status 0 and changes neither files nor schedule.
C4_KillNotRunning ==
    \A p \in Procs :
        (Ended(p) /\ op[p] = "kill" /\ Called(p, "kill_process") /\ pre[p].running = 0)
        => /\ out[p] = <<"[info] process not running">>
           /\ exc[p] = "none" /\ exitCode[p] = 0
           /\ FilesAsBefore(p)
           /\ running = 0

\* Kill ended on an installed, scheduled copy that was not running.
C4_Witness ==
    /\ Ended(1) /\ op[1] = "kill" /\ Called(1, "kill_process") /\ pre[1].running = 0
    /\ is_scheduled(dstFiles) /\ exe_file \in dstFiles

\* C5: when the configuration precondition fails, Deploy, Kill and Uninstall
\* stop in main with a configuration error before any mutation: nothing is
\* created, copied, removed, killed, launched or scheduled.
C5_ConfigErrorFirst ==
    \A p \in Procs :
        (ConfigPreconditionFails /\ op[p] \in {"deploy", "kill", "uninstall"})
        => /\ pc[p] # "idle" => (FilesAsBefore(p) /\ running = pre[p].running)
           /\ steps[p] # <<>>
              => /\ Ended(p) /\ exc[p] = "SystemExit"
                 /\ steps[p] = <<"exit_with_err">>
                 /\ Len(out[p]) = 1 /\ out[p][1] \in ConfigErrorLines

\* Uninstall stopped on a missing key, with Rocket.toml present, on an
\* installed, scheduled and running copy.
C5_Witness ==
    /\ ConfigPreconditionFails /\ rocket_config_file \in srcFiles
    /\ op[1] = "uninstall" /\ Ended(1) /\ steps[1] # <<>>
    /\ is_scheduled(dstFiles) /\ exe_file \in dstFiles /\ running = 1

C7_UninstallFromAbsent ==
    \A p \in Procs :
        (Ended(p) /\ op[p] = "uninstall" /\ Called(p, "uninstall") /\ pre[p] = Absent)
        => /\ exc[p] = "none" /\ exitCode[p] = 0
           /\ out[p] = <<UninstalledLine>>
           /\ Snapshot = pre[p]
           /\ steps[p] = <<"uninstall", "kill_process", "unlink", "unlink", "unlink",
                           "rmdir", "unschedule">>

C7_Witness ==
    Ended(1) /\ op[1] = "uninstall" /\ Called(1, "uninstall") /\ pre[1] = Absent

\* C8: Uninstall always runs all its steps and reports "uninstalled"; with a
\* stray file in the install root it raises nothing, still unschedules, so
\* that is_scheduled() ends false, and reports success.
C8_UninstallAlwaysSucceeds ==
    \A p \in Procs :
        (Ended(p) /\ Called(p, "uninstall"))
        => /\ exc[p] = "none"
           /\ Called(p, "unschedule")
           /\ ~is_scheduled(dstFiles)
           /\ Len(out[p]) > 0 /\ out[p][Len(out[p])] = UninstalledLine

\* C9: remove() is idempotent: called once or twice in a row, from a present
\* or an absent destination, it ends with the destination absent, raises
\* nothing, and changes nothing when the destination was absent.
C9_RemoveIdempotent ==
    call.method = "remove"
    => /\ call.raised = "none"
       /\ call.file \notin dstFiles
       /\ dstFiles = call.before \ {call.file}
       /\ call.file \notin call.before => dstFiles = call.before

\* The second of two remove() calls in a row on the same DeployFile.
C9_Witness ==
    call.method = "remove" /\ call.prior = "remove" /\ call.file \notin call.before

\* C10: a kill failure other than "not running" is never swallowed: Kill ends
\* with a fatal error and does not report "not running"; Deploy aborts before
\* any InstallSet file is overwritten.
C10_KillFailureFatal ==
    \A p \in Procs :
        ext[p].kill = "failed"
        => /\ op[p] = "kill"
              => (Ended(p) /\ exc[p] # "none"
                  /\ \A i \in 1..Len(out[p]) : out[p][i] # "[info] process not running")
           /\ op[p] = "deploy" => ~Called(p, "DeployFile.deploy")

----------------------------------------------------------------------------
\* The invocation p got as far as main.
ReachedMain(p) == steps[p] # <<>>

\* The line print(DeployFile.dst_base) writes.
LocationLine == "dst_base"

\* C11: --location prints the install root and exits 0 without any mutation,
\* also when the required setting or the configuration file is missing.
C11_LocationExempt ==
    \A p \in Procs :
        (Ended(p) /\ op[p] = "location" /\ ReachedMain(p))
        => /\ out[p] = <<LocationLine>>
           /\ exitCode[p] = 0
           /\ FilesAsBefore(p) /\ running = pre[p].running

\* An invocation ended, in main, through exit_with_err or through an exception
\* nobody caught.
FatalError(p) ==
    /\ Ended(p) /\ ReachedMain(p)
    /\ Called(p, "exit_with_err") \/ exc[p] \notin {"none", "SystemExit"}

\* C12: every fatal error that reaches the top level is printed as one line
\* "[error] <message>" and ends the process with a non-zero exit status; exit
\* status 0 comes from successful operations only.
C12_FatalErrorsReported ==
    \A p \in Procs :
        FatalError(p)
        => /\ exitCode[p] # 0
           /\ Len(out[p]) > 0 /\ out[p][Len(out[p])] \in ConfigErrorLines

----------------------------------------------------------------------------
\* How many times invocation p made the call `name`.
CountCalls(p, name) == Cardinality({i \in 1..Len(steps[p]) : steps[p][i] = name})

\* Some file of the InstallSet has no source.
SomeSourceMissing == \E f \in InstallSet(platform) : f \notin srcFiles

----------------------------------------------------------------------------
IsPrefix(a, b) == Len(a) <= Len(b) /\ \A i \in 1..Len(a) : a[i] = b[i]

\* The calls of a whole deploy_all, in order; sched is "schedule" when the
\* schedule step scheduled and "is_scheduled" when it found nothing to do.
DeployOrder(sched) ==
    <<"deploy", "mkdir", "build", "kill_process">>
    \o [i \in 1..Len(files_to_deploy(platform)) |-> "DeployFile.deploy"]
    \o <<sched, "execute_file">>

----------------------------------------------------------------------------
\* Direct calls of the Scheduler methods (line 141: _WindowsScheduler on win32,
\* _MacOSScheduler elsewhere).

\* Creating the Scheduler class of a platform: the body of _MacOSScheduler
\* (lines 110-111) assigns to self._cron where no name self exists.
scheduler_class(plat) == IF plat = "win32" THEN "none" ELSE "NameError"

\* The state the schedule predicate is about: the startup file on win32, an
\* entry for start_script.dst in the user's crontab elsewhere.
Scheduled(plat, dst, cr) == IF plat = "win32" THEN is_scheduled(dst) ELSE cr > 0

CallSchedule ==
    /\ LET r == IF scheduler_class(platform) = "none"
                THEN schedule(srcFiles, dstFiles, rootExists, platform)
                ELSE Result(dstFiles, scheduler_class(platform))
       IN  /\ dstFiles' = r.dst
           /\ startFresh' = IF r.raised = "none"
                            THEN FreshAfterDeploy(start_script, r, startFresh)
                            ELSE startFresh
           /\ call' = [method |-> "schedule", file |-> start_script, before |-> dstFiles,
                       raised |-> r.raised,
                       prior |-> IF call.file = start_script THEN call.method ELSE "none"]
    /\ UNCHANGED <<envVars, srcFiles, rootExists, stray, running, procVars>>

CallUnschedule ==
    /\ LET r == IF scheduler_class(platform) = "none"
                THEN unschedule(dstFiles)
                ELSE Result(dstFiles, scheduler_class(platform))
       IN  /\ dstFiles' = r.dst
           /\ startFresh' = FreshAfterUnlink(r, startFresh)
           /\ call' = [method |-> "unschedule", file |-> start_script, before |-> dstFiles,
                       raised |-> r.raised,
                       prior |-> IF call.file = start_script THEN call.method ELSE "none"]
    /\ UNCHANGED <<envVars, srcFiles, rootExists, stray, running, procVars>>

NextSched == CallSchedule \/ CallUnschedule

InitSched == Init /\ ~envKey /\ ~dotEnvHasKey /\ ~stray /\ running = 0

SpecSched == InitSched /\ [][NextSched]_vars

\* C15: for both scheduler variants, unschedule() called while scheduled ends
\* not scheduled, and called while not scheduled raises NotScheduledError, no
\* other error, and leaves the state not scheduled.
C15_Unschedule ==
    call.method = "unschedule"
    => /\ ~Scheduled(platform, dstFiles, cron)
       /\ IF Scheduled(platform, call.before, cron)
          THEN call.raised = "none"
          ELSE call.raised = "NotScheduledError"

\* C15 for the startup-folder variant alone, which the code does fulfil.
C15_UnscheduleWindows == platform = "win32" => C15_Unschedule

----------------------------------------------------------------------------
\* C16: the start script is redeployed by every Deploy: after any successful
\* Deploy, also one run while already scheduled, the script at its
\* destination is a fresh copy of the current source script.
C16_StartScriptFresh ==
    \A p \in Procs :
        (Completed(p, "deploy") /\ start_script \in srcFiles)
        => (start_script \in dstFiles /\ startFresh)

----------------------------------------------------------------------------
\* Two invocations of Deploy at the same time (the user starts the script
\* twice): the steps of the two interleave freely, each step being one system
\* call or one external command.

StartDeploy(p) == pc[p] = "idle" /\ Start(p) /\ op'[p] = "deploy"

NextConc ==
    \E p \in Procs :
        \/ StartDeploy(p)
        \/ LoadModule(p)
        \/ Main(p)
        \/ DeployMkdir(p)
        \/ DeployBuild(p)
        \/ DeployKill(p)
        \/ DeployFileStep(p)
        \/ DeploySchedule(p)
        \/ DeployLaunch(p)

\* A valid configuration on win32, every source present, any state of the
\* installation.
InitConc ==
    /\ Init
    /\ platform = "win32" /\ envKey /\ ~dotEnvHasKey
    /\ srcFiles = AllFiles(platform)
    /\ ~stray

SpecConc == InitConc /\ [][NextConc]_vars

\* Positions between the kill step and the launch step of deploy_all.
Copying == {"d_files", "d_sched", "d_launch"}

\* C17: no lock keeps two Deploy invocations apart: an invocation at its kill
\* step or in its copy loop can take that step whatever the other one is
\* doing, so both can be between kill and launch at once.
C17_NoLock ==
    \A p \in Procs :
        /\ pc[p] = "d_kill" => ENABLED DeployKill(p)
        /\ pc[p] = "d_files" => ENABLED DeployFileStep(p)

\* Both invocations are in the middle of their copy loops.
C17_BothCopying ==
    /\ pc[1] = "d_files" /\ pc[2] = "d_files"
    /\ idx[1] = 2 /\ idx[2] = 2

\* The second half of C17: invocation 2 started when nothing ran, and its kill
\* step killed the instance that invocation 1 had launched in the meantime.
C17_KillAfterLaunch ==
    /\ Completed(1, "deploy") /\ pre[1].running = 0
    /\ op[2] = "deploy" /\ pre[2].running = 0 /\ ext[2].kill = "killed"

----------------------------------------------------------------------------
\* C18: deploy() never raises a file-not-found error; after it the destination
\* exists exactly if the source exists and the destination's directory
\* exists, so that deploy() with a missing source deletes an installed
\* destination; no other destination changes.
C18_DeployResult ==
    call.method = "deploy"
    => /\ call.raised = "none"
       /\ call.file \in dstFiles
          <=> (call.file \in srcFiles /\ (InRoot(call.file, platform) => rootExists))
       /\ dstFiles \ {call.file} = call.before \ {call.file}

\* deploy() of an installed file whose source is missing: the file is gone.
C18_Witness ==
    /\ call.method = "deploy"
    /\ call.file \in call.before /\ call.file \notin srcFiles
    /\ call.file \notin dstFiles

\* C19: after a single Deploy that runs to completion exactly one instance of
\* the managed executable runs, whether none or one ran when it started.
C19_ExactlyOneRunning ==
    \A p \in Procs :
        (Completed(p, "deploy") /\ pre[p].running \in {0, 1})
        => running = 1

====
